---- MODULE Spec2Model ----
(***************************************************************************)
(* Model of the Confluence REST client (package confluence): construction  *)
(* of the client handle (NewClient), the request executor (Client.do and   *)
(* its wrappers Post, Get, Put, Delete), the error formatting               *)
(* (ErrorResponse.String) and the public URL resolver (Client.URL).        *)
(*                                                                         *)
(* Strings are sequences of tokens; concatenation is \o and the empty      *)
(* string is <<>>.  A path is a string over PathAlphabet:                  *)
(*   "w"   a letter that is not a hexadecimal digit                        *)
(*   "/"   the segment separator                                           *)
(*   ":"   the colon (scheme and port separator)                           *)
(*   ".."  two dots                                                        *)
(*   "%"   a percent sign; no token after it is a hexadecimal digit, so    *)
(*         every "%" is an invalid escape                                  *)
(* The standard library calls made by the source (net/url, encoding/json,  *)
(* fmt) are modelled by what they do on these strings.                     *)
(***************************************************************************)
EXTENDS Integers, Sequences, FiniteSets, TLC

VARIABLES input, client, calls, urlCall

vars == <<input, client, calls, urlCall>>

-----------------------------------------------------------------------------
(* Bounds *)

\* longest path handed to Client.URL
MaxPathLen == 4

\* number of calls that run concurrently on the shared handle
MaxProcs == 2

-----------------------------------------------------------------------------
(* Strings *)

PathAlphabet == {"w", "/", ":", "..", "%"}

RECURSIVE StringsUpTo(_)
StringsUpTo(n) ==
    IF n = 0 THEN {<<>>}
    ELSE LET shorter == StringsUpTo(n - 1)
         IN  shorter \cup {Append(s, t) : s \in {x \in shorter : Len(x) = n - 1},
                                          t \in PathAlphabet}

Paths == StringsUpTo(MaxPathLen)

Contains(s, t) == \E i \in 1..Len(s) : s[i] = t

HasPrefix(s, p) == Len(s) >= Len(p) /\ SubSeq(s, 1, Len(p)) = p

\* 1-based index of the first / last occurrence of token t in s, 0 if none
Index(s, t) ==
    IF Contains(s, t) THEN CHOOSE i \in 1..Len(s) :
                               s[i] = t /\ \A j \in 1..(i - 1) : s[j] # t
    ELSE 0

LastIndex(s, t) ==
    IF Contains(s, t) THEN CHOOSE i \in 1..Len(s) :
                               s[i] = t /\ \A j \in (i + 1)..Len(s) : s[j] # t
    ELSE 0

Drop(s, n) == SubSeq(s, n + 1, Len(s))

-----------------------------------------------------------------------------
(* net/url as used by NewClient, Client.do and Client.URL *)

NoUserinfo == [set |-> FALSE, username |-> <<>>, password |-> <<>>]

\* url.UserPassword
UserPassword(username, password) ==
    [set |-> TRUE, username |-> <<username>>, password |-> <<password>>]

EmptyURL == [Scheme |-> <<>>, Opaque |-> <<>>, User |-> NoUserinfo,
             Host |-> <<>>, Path |-> <<>>, OmitHost |-> FALSE]

\* getScheme: (scheme, rest, err) of a raw reference
RECURSIVE getSchemeAt(_, _)
getSchemeAt(raw, i) ==
    IF i > Len(raw) THEN [scheme |-> <<>>, rest |-> raw, err |-> FALSE]
    ELSE CASE raw[i] = "w"  -> getSchemeAt(raw, i + 1)
           [] raw[i] = ".." -> IF i = 1
                               THEN [scheme |-> <<>>, rest |-> raw, err |-> FALSE]
                               ELSE getSchemeAt(raw, i + 1)
           [] raw[i] = ":"  -> IF i = 1
                               THEN [scheme |-> <<>>, rest |-> <<>>, err |-> TRUE]
                               ELSE [scheme |-> SubSeq(raw, 1, i - 1),
                                     rest |-> Drop(raw, i), err |-> FALSE]
           [] OTHER         -> [scheme |-> <<>>, rest |-> raw, err |-> FALSE]

getScheme(raw) == getSchemeAt(raw, 1)

\* unescape: fails on an invalid percent escape
unescapeFails(s) == Contains(s, "%")

\* validOptionalPort applied to the text from the last colon on
validOptionalPort(colonPort) == Len(colonPort) = 1

\* parseHost (no userinfo and no bracketed literal occurs over PathAlphabet)
parseHostFails(host) ==
    \/ LET i == LastIndex(host, ":")
       IN  i # 0 /\ ~validOptionalPort(Drop(host, i - 1))
    \/ unescapeFails(host)

\* the first path segment of a rootless reference
FirstSegment(rest) ==
    LET i == Index(rest, "/")
    IN  IF i = 0 THEN rest ELSE SubSeq(rest, 1, i - 1)

\* url.Parse: [err, url]
ParseRaw(raw) ==
    LET gs     == getScheme(raw)
        scheme == gs.scheme
        rest   == gs.rest
        rooted == HasPrefix(rest, <<"/">>)
        hasAuthority == HasPrefix(rest, <<"/", "/">>)
                        /\ (scheme # <<>> \/ ~HasPrefix(rest, <<"/", "/", "/">>))
        afterSlashes == Drop(rest, 2)
        cut       == Index(afterSlashes, "/")
        authority == IF cut = 0 THEN afterSlashes
                     ELSE SubSeq(afterSlashes, 1, cut - 1)
        pathRest  == IF ~hasAuthority THEN rest
                     ELSE IF cut = 0 THEN <<>> ELSE Drop(afterSlashes, cut - 1)
        failed == [err |-> TRUE, url |-> EmptyURL]
    IN  IF gs.err THEN failed
        ELSE IF ~rooted /\ scheme # <<>>
             THEN [err |-> FALSE,
                   url |-> [EmptyURL EXCEPT !.Scheme = scheme, !.Opaque = rest]]
        ELSE IF ~rooted /\ Contains(FirstSegment(rest), ":") THEN failed
        ELSE IF hasAuthority /\ parseHostFails(authority) THEN failed
        ELSE IF unescapeFails(pathRest) THEN failed
        ELSE [err |-> FALSE,
              url |-> [EmptyURL EXCEPT
                         !.Scheme = scheme,
                         !.Host = IF hasAuthority THEN authority ELSE <<>>,
                         !.Path = pathRest,
                         !.OmitHost = ~hasAuthority /\ scheme # <<>> /\ rooted]]

\* resolvePath: the loop over the "/"-separated elements of full, removing
\* dot-dot segments; dst always starts with "/"
RECURSIVE resolveLoop(_, _, _)
resolveLoop(remaining, dst, first) ==
    LET i     == Index(remaining, "/")
        found == i # 0
        elem  == IF found THEN SubSeq(remaining, 1, i - 1) ELSE remaining
        str   == Tail(dst)
        index == LastIndex(str, "/")
        dst2  == IF elem = <<"..">>
                 THEN IF index = 0 THEN <<"/">>
                      ELSE <<"/">> \o SubSeq(str, 1, index - 1)
                 ELSE dst \o (IF first THEN <<>> ELSE <<"/">>) \o elem
        first2 == IF elem = <<"..">> THEN (index = 0 \/ first) ELSE FALSE
    IN  IF found THEN resolveLoop(Drop(remaining, i), dst2, first2)
        ELSE IF elem = <<"..">> THEN Append(dst2, "/") ELSE dst2

resolvePath(base, ref) ==
    LET full == IF ref = <<>> THEN base
                ELSE IF ref[1] # "/"
                     THEN SubSeq(base, 1, LastIndex(base, "/")) \o ref
                     ELSE ref
        r    == resolveLoop(full, <<"/">>, TRUE)
    IN  IF full = <<>> THEN <<>>
        ELSE IF Len(r) > 1 /\ r[2] = "/" THEN Tail(r) ELSE r

\* (*URL).ResolveReference
ResolveReference(u, ref) ==
    LET url == [ref EXCEPT !.Scheme = IF ref.Scheme = <<>> THEN u.Scheme
                                      ELSE ref.Scheme]
    IN  IF ref.Scheme # <<>> \/ ref.Host # <<>> \/ ref.User.set
        THEN [url EXCEPT !.Path = resolvePath(ref.Path, <<>>)]
        ELSE IF ref.Opaque # <<>>
             THEN [url EXCEPT !.User = NoUserinfo, !.Host = <<>>, !.Path = <<>>]
        ELSE [url EXCEPT !.Host = u.Host, !.User = u.User,
                         !.Path = resolvePath(u.Path, ref.Path)]

\* (*URL).Parse: parse the reference, then resolve it against the receiver
Parse(u, ref) ==
    LET p == ParseRaw(ref)
    IN  IF p.err THEN p
        ELSE [err |-> FALSE, url |-> ResolveReference(u, p.url)]

\* (*URL).String
String(u) ==
    LET schemePart == IF u.Scheme # <<>> THEN u.Scheme \o <<":">> ELSE <<>>
        authorityPart ==
            IF (u.Scheme # <<>> \/ u.Host # <<>> \/ u.User.set)
               /\ ~(u.OmitHost /\ u.Host = <<>> /\ ~u.User.set)
            THEN (IF u.Host # <<>> \/ u.Path # <<>> \/ u.User.set
                  THEN <<"/", "/">> ELSE <<>>)
                 \o (IF u.User.set
                     THEN u.User.username \o <<":">> \o u.User.password \o <<"@">>
                     ELSE <<>>)
                 \o u.Host
            ELSE <<>>
        slash == IF u.Path # <<>> /\ u.Path[1] # "/" /\ u.Host # <<>>
                 THEN <<"/">> ELSE <<>>
    IN  IF u.Opaque # <<>> THEN schemePart \o u.Opaque
        ELSE schemePart \o authorityPart \o slash \o u.Path

-----------------------------------------------------------------------------
(* Client construction *)

Sites  == {"acme", "corp"}
Users  == {"alice", "bob"}
Tokens == {"s3cret", "t0ken"}

\* NewClientInput
NewClientInputs == [site : Sites, user : Users, token : Tokens]

\* the transport timeout in seconds
TimeoutSeconds == 10

NewClientSharedUser(in) ==
    LET publicURL == [EmptyURL EXCEPT !.Scheme = <<"https">>,
                                      !.Host = <<in.site, ".atlassian.net">>,
                                      !.User = UserPassword(in.user, in.token)]
    IN  [timeout |-> TimeoutSeconds, baseURL |-> publicURL, publicURL |-> publicURL]

\* NewClient: publicURL is built first, baseURL is a copy of it that then
\* receives the credentials
NewClient(in) ==
    LET publicURL == [EmptyURL EXCEPT !.Scheme = <<"https">>,
                                      !.Host = <<in.site, ".atlassian.net">>]
        baseURL   == [publicURL EXCEPT !.User = UserPassword(in.user, in.token)]
    IN  [timeout |-> TimeoutSeconds, baseURL |-> baseURL, publicURL |-> publicURL]

-----------------------------------------------------------------------------
(* Client.URL *)

URLEchoesPath(c, path) ==
    LET p == Parse(c.publicURL, path)
    IN  IF p.err THEN path ELSE String(p.url)

\* Client.URL: the public URL for a path, "" when the path does not parse
URL(c, path) ==
    LET p == Parse(c.publicURL, path)
    IN  IF p.err THEN <<>> ELSE String(p.url)

NoURLCall == [called |-> FALSE, path |-> <<>>, out |-> <<>>]

InitURL ==
    /\ input \in NewClientInputs
    /\ client = NewClient(input)
    /\ calls = <<>>
    /\ urlCall = NoURLCall

\* one call of Client.URL; the handle is only read
CallURL(path) ==
    /\ ~urlCall.called
    /\ urlCall' = [called |-> TRUE, path |-> path, out |-> URL(client, path)]
    /\ UNCHANGED <<input, client, calls>>

\* the caller takes the returned string
ReturnURL ==
    /\ urlCall.called
    /\ urlCall' = NoURLCall
    /\ UNCHANGED <<input, client, calls>>

NextURL ==
    \/ \E path \in Paths : CallURL(path)
    \/ ReturnURL

SpecURL == InitURL /\ [][NextURL]_vars

-----------------------------------------------------------------------------
(* encoding/json as used by Client.do *)

\* JSON values of object members; Absent marks a member the object omits
Absent   == [jt |-> "absent", s |-> "", b |-> FALSE, items |-> <<>>]
JStr(s)  == [jt |-> "string", s |-> s, b |-> FALSE, items |-> <<>>]
JNum(s)  == [jt |-> "number", s |-> s, b |-> FALSE, items |-> <<>>]
JBool(b) == [jt |-> "bool", s |-> "", b |-> b, items |-> <<>>]
JArr(xs) == [jt |-> "array", s |-> "", b |-> FALSE, items |-> xs]

\* Response bodies.  t is "empty" (no bytes), "text" (not JSON), "null",
\* "array" or "object"; an object lists the members the decoders look at,
\* the members of the nested "data" object being present only with hasData.
Doc(t) == [t |-> t, message |-> Absent, hasData |-> FALSE, authorized |-> Absent,
           valid |-> Absent, successful |-> Absent, errors |-> Absent, id |-> Absent]

DocEmpty == Doc("empty")
DocText  == Doc("text")
DocNull  == Doc("null")
DocArray == Doc("array")
DocObject == Doc("object")

ResponseBodies ==
    { DocEmpty, DocText, DocNull, DocArray, DocObject,
      [DocObject EXCEPT !.message = JStr("Not Found")],
      [DocObject EXCEPT !.message = JStr("Not Found"), !.hasData = TRUE,
                        !.authorized = JBool(TRUE), !.successful = JBool(FALSE),
                        !.errors = JArr(<<"e1", "e2">>)],
      [DocObject EXCEPT !.message = JNum("7")],
      [DocObject EXCEPT !.hasData = TRUE, !.valid = JBool(TRUE),
                        !.errors = JArr(<<"e1">>)],
      [DocObject EXCEPT !.id = JStr("p1")],
      [DocObject EXCEPT !.id = JNum("7")] }

\* the error a decoder reports for a document that is no JSON value of the
\* wanted kind, "" when there is none
SyntaxErrorOf(doc) ==
    CASE doc.t = "empty" -> "EOF"
      [] doc.t = "text"  -> "invalid character '<' looking for beginning of value"
      [] doc.t = "array" -> "json: cannot unmarshal array into Go value"
      [] OTHER           -> ""

\* the members of doc that the struct decoder reads, with the type it wants
WrongType(v, jt) == v.jt # "absent" /\ v.jt # jt

\* ErrorResponse (zero value)
ZeroErrorResponse ==
    [StatusCode |-> 0, Message |-> <<>>, Authorized |-> FALSE, Valid |-> FALSE,
     Successful |-> FALSE, Errors |-> <<>>]

\* json.NewDecoder(resp.Body).Decode(&errResponse): [err, value]
DecodeErrorResponse(doc) ==
    LET typeError ==
            \/ WrongType(doc.message, "string")
            \/ doc.hasData /\ ( \/ WrongType(doc.authorized, "bool")
                                \/ WrongType(doc.valid, "bool")
                                \/ WrongType(doc.successful, "bool")
                                \/ WrongType(doc.errors, "array") )
        Str(v)  == IF v.jt = "string" THEN <<v.s>> ELSE <<>>
        Flag(v) == doc.hasData /\ v.jt = "bool" /\ v.b
        value == [StatusCode |-> 0,
                  Message    |-> Str(doc.message),
                  Authorized |-> Flag(doc.authorized),
                  Valid      |-> Flag(doc.valid),
                  Successful |-> Flag(doc.successful),
                  Errors     |-> IF doc.hasData /\ doc.errors.jt = "array"
                                 THEN doc.errors.items ELSE <<>>]
    IN  IF SyntaxErrorOf(doc) # ""
        THEN [err |-> SyntaxErrorOf(doc), value |-> ZeroErrorResponse]
        ELSE IF doc.t = "null" THEN [err |-> "", value |-> ZeroErrorResponse]
        ELSE [err |-> IF typeError
                      THEN "json: cannot unmarshal into Go struct field"
                      ELSE "",
              value |-> value]

\* The result target the callers pass: a pointer to a struct with one
\* string field read from the member "id".
ZeroTarget == [ID |-> <<>>]

DecodeResultIgnoresErrors(doc, target) ==
    [err |-> "",
     target |-> IF doc.t = "object" /\ doc.id.jt = "string"
                THEN [target EXCEPT !.ID = <<doc.id.s>>] ELSE target]

\* json.NewDecoder(resp.Body).Decode(&result): [err, target]
DecodeResult(doc, target) ==
    IF SyntaxErrorOf(doc) # "" THEN [err |-> SyntaxErrorOf(doc), target |-> target]
    ELSE IF doc.t = "null" THEN [err |-> "", target |-> target]
    ELSE IF WrongType(doc.id, "string")
         THEN [err |-> "json: cannot unmarshal into Go struct field",
               target |-> target]
    ELSE [err |-> "",
          target |-> IF doc.id.jt = "string"
                     THEN [target EXCEPT !.ID = <<doc.id.s>>] ELSE target]

\* Request bodies: no body, a page struct, and a value json.Marshal rejects
NilBody  == [kind |-> "nil", title |-> ""]
PageBody == [kind |-> "struct", title |-> "Home"]
ChanBody == [kind |-> "chan", title |-> ""]

RequestBodies == {NilBody, PageBody, ChanBody}

\* json.Marshal(body): [err, bytes]
Marshal(body) ==
    IF body.kind = "struct"
    THEN [err |-> "", bytes |-> <<"{\"title\":\"", body.title, "\"}">>]
    ELSE [err |-> "json: unsupported type", bytes |-> <<>>]

-----------------------------------------------------------------------------
(* ErrorResponse.String and the errors Client.do returns *)

Bool(b) == IF b THEN "true" ELSE "false"

\* strings.Join
RECURSIVE Join(_, _)
Join(elems, sep) ==
    IF elems = <<>> THEN <<>>
    ELSE IF Len(elems) = 1 THEN <<elems[1]>>
    ELSE <<elems[1], sep>> \o Join(Tail(elems), sep)

\* (*ErrorResponse).String
ErrorResponseString(e) ==
    LET errorsString == IF Len(e.Errors) > 0
                        THEN <<"\n  * ">> \o Join(e.Errors, "\n  * ")
                        ELSE <<>>
    IN  e.Message \o <<"\nAuthorized: ", Bool(e.Authorized),
                       "\nValid: ", Bool(e.Valid),
                       "\nSuccessful: ", Bool(e.Successful)>> \o errorsString

NoError == [kind |-> "nil", text |-> <<>>]

Error(kind, text) == [kind |-> kind, text |-> text]

APIErrorWithoutBody(status, method, path, bodyBytes, tail) ==
    Error("APIError",
          <<status, "\n\n", method, " ">> \o path \o <<"\n">> \o <<"\n\n">> \o tail)

\* fmt.Errorf("%s\n\n%s %s\n%s\n\n%v", resp.Status, method, path,
\*            string(bodyBytes), tail)
APIError(status, method, path, bodyBytes, tail) ==
    Error("APIError",
          <<status, "\n\n", method, " ">> \o path \o <<"\n">> \o bodyBytes
              \o <<"\n\n">> \o tail)

-----------------------------------------------------------------------------
(* Client.do and its wrappers *)

Methods == {"POST", "GET", "PUT", "DELETE"}

\* expectedStatusCode
expectedStatusCode ==
    ("POST" :> 200) @@ ("PUT" :> 200) @@ ("GET" :> 200) @@ ("DELETE" :> 204)

Statuses == {200, 201, 204, 404}

\* resp.Status, the status line of the response
StatusLine(code) ==
    CASE code = 200 -> "200 OK"
      [] code = 201 -> "201 Created"
      [] code = 204 -> "204 No Content"
      [] code = 404 -> "404 Not Found"

\* the arguments of do: result is the presence of a result target
DoArgs(method, path, body, result) ==
    [method |-> method, path |-> path, body |-> body, result |-> result]

Post(path, body, result) == DoArgs("POST", path, body, result)
Get(path, result)        == DoArgs("GET", path, NilBody, result)
Put(path, body, result)  == DoArgs("PUT", path, body, result)
Delete(path)             == DoArgs("DELETE", path, NilBody, FALSE)

\* the calls a caller can make with paths ps and bodies bs
CallsWith(ps, bs) ==
    {Post(p, b, r) : p \in ps, b \in bs, r \in BOOLEAN}
        \cup {Get(p, r) : p \in ps, r \in BOOLEAN}
        \cup {Put(p, b, r) : p \in ps, b \in bs, r \in BOOLEAN}
        \cup {Delete(p) : p \in ps}

\* a relative path, a rooted path, an unparsable path, a reference with an
\* authority of its own
DoPaths == {<<"w", "/", "w">>, <<"/", "w">>, <<"%">>, <<"/", "/", "w">>}

AllCalls == CallsWith(DoPaths, RequestBodies)

\* what the transport hands back to client.Do: an error or a response
TransportError == [ok |-> FALSE, StatusCode |-> 0, Body |-> DocEmpty]

Responses(codes, bodies) == [ok : {TRUE}, StatusCode : codes, Body : bodies]

AllOutcomes == {TransportError} \cup Responses(Statuses, ResponseBodies)

NoRequest == [set |-> FALSE, method |-> "", url |-> <<>>, hasBody |-> FALSE,
              body |-> <<>>, header |-> {}]

NoResponse == [set |-> FALSE, StatusCode |-> 0, Status |-> "", Body |-> DocEmpty,
               read |-> FALSE, closed |-> FALSE]

\* a caller that is not inside do
IdleCall ==
    [pc |-> "idle", args |-> Delete(<<>>), target |-> ZeroTarget, u |-> <<>>,
     bodyBytes |-> <<>>, req |-> NoRequest, resp |-> NoResponse,
     deferred |-> FALSE, err |-> NoError, sent |-> 0, returned |-> 0]

ReturnWithoutClose(c, err) ==
    [c EXCEPT !.pc = "done", !.err = err, !.returned = @ + 1]

\* a return statement of do: the deferred resp.Body.Close() runs first
Return(c, err) ==
    [c EXCEPT !.pc = "done", !.err = err, !.returned = @ + 1,
              !.resp = IF c.deferred THEN [@ EXCEPT !.closed = TRUE] ELSE @]

\* the caller enters one of Post, Get, Put, Delete
Begin(i, args) ==
    /\ calls[i].pc = "idle"
    /\ calls' = [calls EXCEPT ![i] = [IdleCall EXCEPT !.pc = "resolve",
                                                      !.args = args]]
    /\ UNCHANGED <<input, client, urlCall>>

ResolveInPlace(i) ==
    LET c == calls[i]
        p == Parse(client.baseURL, c.args.path)
    IN  /\ c.pc = "resolve"
        /\ calls' = [calls EXCEPT ![i] =
                        IF p.err
                        THEN Return(c, Error("PathResolutionError", <<"parse">>))
                        ELSE [c EXCEPT !.pc = "marshal", !.u = String(p.url)]]
        /\ client' = IF p.err THEN client ELSE [client EXCEPT !.baseURL = p.url]
        /\ UNCHANGED <<input, urlCall>>

\* u, err := c.baseURL.Parse(path)
Resolve(i) ==
    LET c == calls[i]
        p == Parse(client.baseURL, c.args.path)
    IN  /\ c.pc = "resolve"
        /\ calls' = [calls EXCEPT ![i] =
                        IF p.err
                        THEN Return(c, Error("PathResolutionError", <<"parse">>))
                        ELSE [c EXCEPT !.pc = "marshal", !.u = String(p.url)]]
        /\ UNCHANGED <<input, client, urlCall>>

\* if body != nil { bodyBytes, err = json.Marshal(body) ... }
MarshalBody(i) ==
    LET c == calls[i]
        m == Marshal(c.args.body)
    IN  /\ c.pc = "marshal"
        /\ calls' = [calls EXCEPT ![i] =
                        IF c.args.body = NilBody THEN [c EXCEPT !.pc = "request"]
                        ELSE IF m.err # ""
                             THEN Return(c, Error("SerializationError", <<m.err>>))
                        ELSE [c EXCEPT !.pc = "request", !.bodyBytes = m.bytes]]
        /\ UNCHANGED <<input, client, urlCall>>

BuildRequestAlwaysTyped(method, url, body, bodyBytes) ==
    [set |-> TRUE, method |-> method, url |-> url, hasBody |-> body # NilBody,
     body |-> bodyBytes,
     header |-> {<<"Content-Type", "application/json">>}]

\* http.NewRequest(method, u.String(), bodyReader) and the Content-Type header
BuildRequest(method, url, body, bodyBytes) ==
    [set |-> TRUE, method |-> method, url |-> url, hasBody |-> body # NilBody,
     body |-> bodyBytes,
     header |-> IF body # NilBody
                THEN {<<"Content-Type", "application/json">>} ELSE {}]

\* http.NewRequest does not fail for one of the four verbs and a URL that
\* (*URL).String produced
NewRequest(i) ==
    LET c == calls[i]
    IN  /\ c.pc = "request"
        /\ calls' = [calls EXCEPT ![i] =
                        [c EXCEPT !.pc = "send",
                                  !.req = BuildRequest(c.args.method, c.u,
                                                       c.args.body, c.bodyBytes)]]
        /\ UNCHANGED <<input, client, urlCall>>

\* the response as do holds it after client.Do
ResponseOf(outcome) ==
    [set |-> TRUE, StatusCode |-> outcome.StatusCode,
     Status |-> StatusLine(outcome.StatusCode), Body |-> outcome.Body,
     read |-> FALSE, closed |-> FALSE]

SendWithRetry(i, outcomes) ==
    LET c == calls[i]
    IN  /\ c.pc = "send"
        /\ c.sent < 3
        /\ \E o \in outcomes :
             calls' = [calls EXCEPT ![i] =
                          IF ~o.ok
                          THEN [c EXCEPT !.sent = @ + 1]
                          ELSE [c EXCEPT !.pc = "status", !.sent = @ + 1,
                                         !.resp = ResponseOf(o),
                                         !.deferred = TRUE]]
        /\ UNCHANGED <<input, client, urlCall>>

\* resp, err := c.client.Do(req); defer resp.Body.Close()
Send(i, outcomes) ==
    LET c == calls[i]
    IN  /\ c.pc = "send"
        /\ \E o \in outcomes :
             calls' = [calls EXCEPT ![i] =
                          IF ~o.ok
                          THEN Return([c EXCEPT !.sent = @ + 1],
                                      Error("TransportError", <<"Do">>))
                          ELSE [c EXCEPT !.pc = "status", !.sent = @ + 1,
                                         !.resp = ResponseOf(o),
                                         !.deferred = TRUE]]
        /\ UNCHANGED <<input, client, urlCall>>

StatusMismatchNon2xx(method, code) == code \notin 200..299

\* resp.StatusCode != expectedStatusCode[method]
StatusMismatch(method, code) == code # expectedStatusCode[method]

\* the error do returns on a status mismatch
MismatchError(c) ==
    LET d == DecodeErrorResponse(c.resp.Body)
    IN  APIError(c.resp.Status, c.args.method, c.args.path, c.bodyBytes,
                 IF d.err # "" THEN <<d.err>> ELSE ErrorResponseString(d.value))

\* if resp.StatusCode != expectedStatusCode[method] { ... }
CheckStatus(i) ==
    LET c == calls[i]
    IN  /\ c.pc = "status"
        /\ calls' = [calls EXCEPT ![i] =
                        IF StatusMismatch(c.args.method, c.resp.StatusCode)
                        THEN Return([c EXCEPT !.resp.read = TRUE], MismatchError(c))
                        ELSE [c EXCEPT !.pc = "result"]]
        /\ UNCHANGED <<input, client, urlCall>>

DecodeBodyAlways(i) ==
    LET c == calls[i]
        d == DecodeResult(c.resp.Body, c.target)
        r == [c EXCEPT !.resp.read = TRUE, !.target = d.target]
    IN  /\ c.pc = "result"
        /\ calls' = [calls EXCEPT ![i] =
                        IF d.err # ""
                        THEN Return(r, Error("DeserializationError", <<d.err>>))
                        ELSE Return(r, NoError)]
        /\ UNCHANGED <<input, client, urlCall>>

\* if result != nil { err = json.NewDecoder(resp.Body).Decode(&result) ... }
\* return nil
DecodeBody(i) ==
    LET c == calls[i]
        d == DecodeResult(c.resp.Body, c.target)
        r == [c EXCEPT !.resp.read = TRUE, !.target = d.target]
    IN  /\ c.pc = "result"
        /\ calls' = [calls EXCEPT ![i] =
                        IF ~c.args.result THEN Return(c, NoError)
                        ELSE IF d.err # ""
                             THEN Return(r, Error("DeserializationError", <<d.err>>))
                        ELSE Return(r, NoError)]
        /\ UNCHANGED <<input, client, urlCall>>

\* the caller takes the returned error and may call again
Finish(i) ==
    /\ calls[i].pc = "done"
    /\ calls' = [calls EXCEPT ![i] = IdleCall]
    /\ UNCHANGED <<input, client, urlCall>>

\* the steps of do that take no input
Step(i) ==
    \/ Resolve(i)
    \/ MarshalBody(i)
    \/ NewRequest(i)
    \/ CheckStatus(i)
    \/ DecodeBody(i)
    \/ Finish(i)

-----------------------------------------------------------------------------
(* One caller: calls run one after another *)

Init ==
    /\ input \in NewClientInputs
    /\ client = NewClient(input)
    /\ calls = [i \in {1} |-> IdleCall]
    /\ urlCall = NoURLCall

Next ==
    \/ \E a \in AllCalls : Begin(1, a)
    \/ Send(1, AllOutcomes)
    \/ Step(1)

Spec == Init /\ [][Next]_vars

-----------------------------------------------------------------------------
(* MaxProcs callers share the handle: calls interleave step by step *)

Procs == 1..MaxProcs

ConcInput == [site |-> "acme", user |-> "alice", token |-> "s3cret"]

ConcPaths == {<<"w">>, <<"%">>}

ConcCalls == {Post(<<"w">>, PageBody, TRUE), Get(<<"%">>, TRUE),
              Get(<<"w", "/", "..">>, FALSE), Delete(<<"w">>)}

ConcOutcomes ==
    {TransportError}
        \cup Responses({200, 404}, {DocText, [DocObject EXCEPT !.id = JStr("p1")]})

InitConc ==
    /\ input = ConcInput
    /\ client = NewClient(input)
    /\ calls = [i \in Procs |-> IdleCall]
    /\ urlCall = NoURLCall

NextConc ==
    \/ \E i \in Procs :
         \/ \E a \in ConcCalls : Begin(i, a)
         \/ Send(i, ConcOutcomes)
         \/ Step(i)
    \/ \E path \in ConcPaths : CallURL(path)
    \/ ReturnURL

SpecConc == InitConc /\ [][NextConc]_vars

-----------------------------------------------------------------------------
(* Properties of Client.do, checked under Spec *)

\* a call of do that has returned after client.Do handed it a response
Answered(c) == c.pc = "done" /\ c.resp.set

\* the expectation table as the interface states it
TableEntry(method) == IF method = "DELETE" THEN 204 ELSE 200

\* C1: a call that received a response fails with an APIError exactly when
\* the response status differs from the table entry of its verb (POST, PUT
\* and GET 200, DELETE 204); other 2xx statuses are failures too.
C1_APIErrorIffStatusDiffers ==
    \A i \in DOMAIN calls :
        Answered(calls[i]) =>
            ( calls[i].err.kind = "APIError"
                <=> calls[i].resp.StatusCode # TableEntry(calls[i].args.method) )

C1_Witness ==
    \E i \in DOMAIN calls :
        /\ Answered(calls[i])
        /\ calls[i].args.method = "POST"
        /\ calls[i].resp.StatusCode = 201
        /\ calls[i].err.kind = "APIError"

\* the context every APIError text starts with: status line, method, the
\* path as the caller gave it, the serialized request body
ErrorContext(c) ==
    <<StatusLine(c.resp.StatusCode), "\n\n", c.args.method, " ">> \o c.args.path
        \o <<"\n">>
        \o (IF c.args.body = NilBody THEN <<>>
            ELSE <<"{\"title\":\"", c.args.body.title, "\"}">>)
        \o <<"\n\n">>

\* the body is JSON that fits the error payload
FitsErrorPayload(doc) ==
    /\ doc.t \in {"null", "object"}
    /\ doc.message.jt \in {"absent", "string"}
    /\ doc.hasData => /\ doc.authorized.jt \in {"absent", "bool"}
                      /\ doc.valid.jt \in {"absent", "bool"}
                      /\ doc.successful.jt \in {"absent", "bool"}
                      /\ doc.errors.jt \in {"absent", "array"}

\* the tail is the formatted payload of doc: the message, the three flags
\* and one bullet per sub-error
IsFormattedPayload(tail, doc) ==
    LET msg  == IF doc.message.jt = "string" THEN <<doc.message.s>> ELSE <<>>
        subs == IF doc.hasData /\ doc.errors.jt = "array"
                THEN doc.errors.items ELSE <<>>
        flag(v) == IF doc.hasData /\ v.jt = "bool" /\ v.b THEN "true" ELSE "false"
    IN  /\ HasPrefix(tail, msg \o <<"\nAuthorized: ", flag(doc.authorized),
                                    "\nValid: ", flag(doc.valid),
                                    "\nSuccessful: ", flag(doc.successful)>>)
        /\ Len(tail) = Len(msg) + 6 + 2 * Len(subs)
        /\ \A k \in 1..Len(subs) :
               /\ tail[Len(msg) + 5 + 2 * k] = "\n  * "
               /\ tail[Len(msg) + 6 + 2 * k] = subs[k]

\* the tail is the decoder's own failure, nothing of the payload format
IsDecodeFailure(tail) ==
    /\ Len(tail) = 1
    /\ tail[1] \in {"EOF", "invalid character '<' looking for beginning of value",
                    "json: cannot unmarshal array into Go value",
                    "json: cannot unmarshal into Go struct field"}

\* C2: on a status mismatch the returned error is an APIError whose text is
\* the status line, the method, the unresolved path and the serialized
\* request body (empty without a body), followed by the formatted payload
\* when the response body decodes as the error payload and by the decode
\* failure when it does not; the call never returns nil then.
C2_MismatchErrorText ==
    \A i \in DOMAIN calls :
        LET c    == calls[i]
            tail == Drop(c.err.text, Len(ErrorContext(c)))
        IN  (Answered(c) /\ c.resp.StatusCode # TableEntry(c.args.method)) =>
                /\ c.err.kind = "APIError"
                /\ HasPrefix(c.err.text, ErrorContext(c))
                /\ IF FitsErrorPayload(c.resp.Body)
                   THEN IsFormattedPayload(tail, c.resp.Body)
                   ELSE IsDecodeFailure(tail)

C2_Witness ==
    \E i \in DOMAIN calls :
        /\ Answered(calls[i])
        /\ calls[i].args.method = "PUT"
        /\ calls[i].args.body = PageBody
        /\ calls[i].resp.StatusCode = 404
        /\ calls[i].resp.Body = DocText
        /\ calls[i].err.text =
               <<"404 Not Found", "\n\n", "PUT", " ", "/", "w", "\n",
                 "{\"title\":\"", "Home", "\"}", "\n\n",
                 "invalid character '<' looking for beginning of value">>

ContentTypeJSON == <<"Content-Type", "application/json">>

\* C3: a request carries Content-Type: application/json exactly when a body
\* was supplied; get and delete requests, and post or put without a body,
\* carry neither the header nor a request body.
C3_ContentTypeIffBody ==
    \A i \in DOMAIN calls :
        LET c == calls[i]
        IN  c.req.set =>
                /\ ContentTypeJSON \in c.req.header <=> c.args.body # NilBody
                /\ c.args.method \in {"GET", "DELETE"} =>
                       c.req.header = {} /\ ~c.req.hasBody /\ c.req.body = <<>>
                /\ c.args.body = NilBody =>
                       c.req.header = {} /\ ~c.req.hasBody /\ c.req.body = <<>>

C3_Witness ==
    \E i \in DOMAIN calls :
        /\ calls[i].sent = 1
        /\ calls[i].args.method = "POST"
        /\ calls[i].args.body = NilBody
        /\ calls[i].req.header = {}

\* the body is a JSON object that fits the result target
FitsTarget(doc) == doc.t = "object" /\ doc.id.jt \in {"absent", "string"}

\* the body does not decode into the result target
Undecodable(doc) ==
    doc.t \in {"empty", "text", "array"} \/ (doc.t = "object" /\ doc.id.jt = "number")

\* C4: with a result target and status 200, a body that is valid JSON of the
\* target's shape populates the target and the call returns no error; a
\* body that does not decode makes the call return a DeserializationError.
C4_ResultDecoding ==
    \A i \in DOMAIN calls :
        LET c == calls[i]
        IN  ( /\ Answered(c)
              /\ c.args.method \in {"GET", "POST", "PUT"}
              /\ c.args.result
              /\ c.resp.StatusCode = 200 ) =>
                /\ FitsTarget(c.resp.Body) =>
                       /\ c.err = NoError
                       /\ c.target.ID = IF c.resp.Body.id.jt = "string"
                                        THEN <<c.resp.Body.id.s>> ELSE <<>>
                /\ Undecodable(c.resp.Body) => c.err.kind = "DeserializationError"

C4_Witness ==
    \E i \in DOMAIN calls :
        /\ Answered(calls[i])
        /\ calls[i].args.method = "GET"
        /\ calls[i].args.result
        /\ calls[i].resp.StatusCode = 200
        /\ calls[i].target.ID = <<"p1">>
        /\ calls[i].err = NoError

\* C5: when the status is the expected one and no result target was given,
\* the call returns no error whatever the body holds, and the body is not
\* read; delete answered with 204 succeeds with or without a body.
C5_NoTargetNoRead ==
    \A i \in DOMAIN calls :
        LET c == calls[i]
        IN  ( /\ Answered(c)
              /\ c.resp.StatusCode = TableEntry(c.args.method)
              /\ ~c.args.result ) =>
                c.err = NoError /\ ~c.resp.read

C5_Witness ==
    \E i \in DOMAIN calls :
        /\ Answered(calls[i])
        /\ calls[i].args.method = "DELETE"
        /\ calls[i].resp.StatusCode = 204
        /\ calls[i].resp.Body = DocText
        /\ calls[i].err = NoError

\* C6: a call sends at most one request and never sends again after a
\* failure; every failure is returned once; a call that fails at path
\* resolution or at body serialization returns before anything is sent.
C6_OneSendNoRetry ==
    \A i \in DOMAIN calls :
        LET c == calls[i]
        IN  /\ c.sent <= 1
            /\ c.returned <= 1
            /\ c.pc = "done" <=> c.returned = 1
            /\ c.err # NoError => c.pc = "done"
            /\ c.err.kind \in {"PathResolutionError", "SerializationError"} =>
                   c.sent = 0 /\ ~c.req.set /\ ~c.resp.set
            /\ c.err.kind \in {"TransportError", "APIError", "DeserializationError"} =>
                   c.sent = 1

C6_Witness ==
    \E i \in DOMAIN calls :
        /\ calls[i].pc = "done"
        /\ calls[i].err.kind = "TransportError"
        /\ calls[i].sent = 1
        /\ calls[i].returned = 1

\* C7: whenever a response was received, its body is closed by the time the
\* call has returned, on every exit path.
C7_BodyClosedOnReturn ==
    \A i \in DOMAIN calls :
        Answered(calls[i]) => calls[i].resp.closed

C7_Witness ==
    \E i \in DOMAIN calls :
        /\ Answered(calls[i])
        /\ calls[i].err.kind = "DeserializationError"
        /\ calls[i].resp.closed

-----------------------------------------------------------------------------
(* Properties of NewClient and Client.URL, checked under SpecURL *)

\* the public base as a string
PublicBase == <<"https", ":", "/", "/", input.site, ".atlassian.net">>

\* s is a URL whose scheme and authority are those of the public base
OnPublicBase(s) ==
    /\ HasPrefix(s, PublicBase)
    /\ Len(s) > Len(PublicBase) => s[Len(PublicBase) + 1] = "/"

\* the path parses and has no scheme: a relative reference
IsRelativeReference(path) ==
    ~ParseRaw(path).err /\ ParseRaw(path).url.Scheme = <<>>

\* a relative reference that names an authority of its own ("//host...")
HasOwnAuthority(path) == ParseRaw(path).url.Host # <<>>

\* segments of letters separated by "/", not starting with "/"
IsPlainRelativePath(path) ==
    /\ path # <<>>
    /\ path[1] = "w"
    /\ \A k \in 1..Len(path) : path[k] \in {"w", "/"}

\* C8 as stated: URL returns "" for a path that does not parse, and for every
\* relative reference a non-empty URL on the scheme and authority of the
\* public base.
C8_RelativeStaysOnPublicBase ==
    urlCall.called =>
        /\ ParseRaw(urlCall.path).err => urlCall.out = <<>>
        /\ IsRelativeReference(urlCall.path) =>
               urlCall.out # <<>> /\ OnPublicBase(urlCall.out)

\* C8 amended: URL returns "" for a path that does not parse; for every
\* relative reference it returns a non-empty URL, which is on the scheme and
\* authority of the public base when the reference names no authority of its
\* own, and which is the base followed by "/" and the path for a path of
\* plain segments.
C8_RelativeWithoutAuthorityStaysOnPublicBase ==
    urlCall.called =>
        /\ ParseRaw(urlCall.path).err => urlCall.out = <<>>
        /\ IsRelativeReference(urlCall.path) =>
               /\ urlCall.out # <<>>
               /\ ~HasOwnAuthority(urlCall.path) => OnPublicBase(urlCall.out)
        /\ IsPlainRelativePath(urlCall.path) =>
               urlCall.out = PublicBase \o <<"/">> \o urlCall.path

C8_Witness ==
    /\ urlCall.called
    /\ urlCall.path = <<"w", "/", "w">>
    /\ urlCall.out = <<"https", ":", "/", "/", input.site, ".atlassian.net",
                       "/", "w", "/", "w">>

\* C9: the authenticated base is https://{site}.atlassian.net with the
\* credentials (user, token); the public base has the same scheme and host
\* and no credentials; no URL that Client.URL returns for a relative
\* reference contains the user or the token.
C9_CredentialsOnlyOnAuthenticatedBase ==
    /\ client.baseURL.Scheme = <<"https">>
    /\ client.baseURL.Host = <<input.site, ".atlassian.net">>
    /\ client.baseURL.User.set
    /\ client.baseURL.User.username = <<input.user>>
    /\ client.baseURL.User.password = <<input.token>>
    /\ client.publicURL.Scheme = client.baseURL.Scheme
    /\ client.publicURL.Host = client.baseURL.Host
    /\ ~client.publicURL.User.set
    /\ String(client.publicURL) = PublicBase
    /\ (urlCall.called /\ IsRelativeReference(urlCall.path)) =>
           /\ ~Contains(urlCall.out, input.user)
           /\ ~Contains(urlCall.out, input.token)
           /\ ~Contains(urlCall.out, "@")

C9_Witness ==
    /\ urlCall.called
    /\ urlCall.path = <<"/", "w">>
    /\ input = [site |-> "corp", user |-> "bob", token |-> "t0ken"]
    /\ urlCall.out = <<"https", ":", "/", "/", "corp", ".atlassian.net", "/", "w">>

-----------------------------------------------------------------------------
(* Properties of the shared handle, checked under SpecConc *)

\* what do returns for arguments a on handle h when the transport answers
\* with resp (resp.set is false when it answered with an error)
ResultOf(h, a, resp) ==
    LET bytes == IF a.body = NilBody THEN <<>> ELSE Marshal(a.body).bytes
        e     == DecodeErrorResponse(resp.Body)
        d     == DecodeResult(resp.Body, ZeroTarget)
    IN  IF Parse(h.baseURL, a.path).err
        THEN [err |-> Error("PathResolutionError", <<"parse">>), target |-> ZeroTarget]
        ELSE IF a.body # NilBody /\ Marshal(a.body).err # ""
        THEN [err |-> Error("SerializationError", <<Marshal(a.body).err>>),
              target |-> ZeroTarget]
        ELSE IF ~resp.set
        THEN [err |-> Error("TransportError", <<"Do">>), target |-> ZeroTarget]
        ELSE IF resp.StatusCode # TableEntry(a.method)
        THEN [err |-> APIError(resp.Status, a.method, a.path, bytes,
                               IF e.err # "" THEN <<e.err>>
                               ELSE ErrorResponseString(e.value)),
              target |-> ZeroTarget]
        ELSE IF ~a.result THEN [err |-> NoError, target |-> ZeroTarget]
        ELSE [err |-> IF d.err # "" THEN Error("DeserializationError", <<d.err>>)
                      ELSE NoError,
              target |-> d.target]

\* C10: the handle is read-only after construction: whatever calls of post,
\* get, put, delete and URL have run or are running, the authenticated base,
\* the public base and the timeout are those NewClient built, and what a
\* call returns is determined by its own arguments and its own response.
C10_HandleReadOnly ==
    /\ client = NewClient(input)
    /\ client.timeout = TimeoutSeconds
    /\ \A i \in DOMAIN calls :
           LET c == calls[i]
               r == ResultOf(NewClient(input), c.args, c.resp)
           IN  /\ c.pc = "done" => c.err = r.err /\ c.target = r.target
               /\ c.pc \in {"marshal", "request", "send", "status", "result"} =>
                      c.u = String(Parse(NewClient(input).baseURL, c.args.path).url)
    /\ urlCall.called => urlCall.out = URL(NewClient(input), urlCall.path)

C10_Witness ==
    /\ urlCall.called
    /\ calls[1].pc = "done"
    /\ calls[1].args.method = "POST"
    /\ calls[1].err = NoError
    /\ calls[2].pc = "status"
    /\ calls[2].args.method = "DELETE"

====
